---- MODULE Spec2Model ----
(***************************************************************************)
(* Model of the OAuthFlow class of src/src/cli.ts (lines 2099-2296): one   *)
(* instance, its two fields `server` and `timeoutId`, and the attempts     *)
(* started on it by authorize().  Every event-loop callback of the class   *)
(* (listen callback, 'error' handler, request handler, timer callback,     *)
(* readline callback, continuation after the awaited getToken) is one      *)
(* action.                                                                 *)
(***************************************************************************)
EXTENDS Integers, FiniteSets, Sequences, TLC

\* ---------------------------------------------------------------- bounds
MaxAttempts == 2
MaxExchanges == 2

Attempts == 1..MaxAttempts

\* ------------------------------------------------------------- constants
TIMEOUT_MS == 120000

\* error strings of the AuthResult values the code builds
ErrTimedOut == "Authorization timed out"
ErrNoCode == "No authorization code"
ErrNoCodeManual == "No authorization code found in URL"
\* messages that come from outside the class
BindErrors == {"EADDRINUSE"}
ExchangeErrors == {"invalid_grant"}
ProviderErrors == {"access_denied"}
Codes == {"c1"}
Tokens == {"rt1"}
ParseError == "URI malformed"

VARIABLES
    server,      \* this.server: 0 is null, else the attempt whose http.Server it is
    timeoutId,   \* this.timeoutId: 0 is null, else the attempt whose timer handle it is
    crashed,     \* an exception escaped an event-loop callback: the process is gone
    nAttempts,   \* number of authorize() calls made so far on the instance
    mode,        \* per attempt: "none" | "auto" | "manual"
    srv,         \* per attempt, its http.Server: "none" | "binding" | "listening" | "failed"
                 \*   | "closed" | "closedUnbound" (close() called before the bind finished)
    tmr,         \* per attempt, its setTimeout timer: "none" | "armed" | "fired" | "cleared"
    rl,          \* per attempt, its readline interface: "none" | "asking" | "closed"
    pasted,      \* per attempt: the line handed to the question callback
    inflight,    \* per attempt: getToken calls awaited and not yet returned
    exchanges,   \* per attempt: getToken calls made
    result,      \* per attempt: the state of the promise authorize() awaits
    oauth2Client,\* this.oauth2Client, by the redirect URI it was built with
    authUrl,     \* per attempt: the authorization URL printed to the console
    browser,     \* per attempt, the process started by openBrowser: "none" | "spawned" | "failed"
    calls,       \* the calls made by the callback that ran last, in the order it made
                 \* them; recorded in the runs of the `accounts add` command
    inTime,      \* per attempt: the codes it was given while it was unresolved;
                 \* recorded in the runs of the `accounts add` command
    req,         \* the URL of the last request, as parsed by the request handler;
                 \* recorded in the runs of the `accounts add` command
    cli,         \* the `accounts add` command: its arguments, its position, process.exit
    store        \* accountStorage: the configured credentials and the accounts

flowVars == <<server, timeoutId, crashed, nAttempts, mode, srv, tmr, rl,
              pasted, inflight, exchanges, result, oauth2Client, authUrl, browser>>
cliVars == <<cli, store>>
vars == <<flowVars, calls, inTime, req, cliVars>>

\* the process runs until an exception is uncaught or process.exit is called
Alive == ~crashed /\ cli.exitCode = -1

\* a command runs: its callbacks are recorded in `calls` and `inTime`
Recorded == cli.pc # "none"
\* what a callback leaves in `calls`
Log(made) == IF Recorded THEN made ELSE <<>>

\* --------------------------------------------------- authorization URL
SCOPES == <<"https://mail.google.com/",
            "https://www.googleapis.com/auth/calendar",
            "https://www.googleapis.com/auth/drive">>

NoRedirect == [host |-> "", port |-> -1]
ManualRedirect == [host |-> "localhost", port |-> 1]
Loopback(port) == [host |-> "localhost", port |-> port]

NoUrl == [redirect_uri |-> NoRedirect, response_type |-> "", scope |-> <<>>,
          access_type |-> "", prompt |-> ""]
AuthUrl(redirectUri) ==
    [redirect_uri |-> redirectUri, response_type |-> "code", scope |-> SCOPES,
     access_type |-> "offline", prompt |-> "consent"]

\* a manual URL that asks for the first scope only
ManualAuthUrlFirstScope(redirectUri) ==
    [redirect_uri |-> redirectUri, response_type |-> "code", scope |-> <<SCOPES[1]>>,
     access_type |-> "offline", prompt |-> "consent"]
\* the authorization URL startManualFlow builds, its own copy of the template
ManualAuthUrl(redirectUri) ==
    [redirect_uri |-> redirectUri, response_type |-> "code", scope |-> SCOPES,
     access_type |-> "offline", prompt |-> "consent"]

\* the port the operating system gives the listener of attempt a
PortOf(a) == 49152 + a
\* server.address() of a server in state `state`: null (0) unless it listens
AddressPort(a, state) == IF state = "listening" THEN PortOf(a) ELSE 0

\* ---------------------------------------------------------- AuthResult
Pending == [settled |-> FALSE, success |-> FALSE, refreshToken |-> "", error |-> ""]
Failure(msg) == [settled |-> TRUE, success |-> FALSE, refreshToken |-> "", error |-> msg]
Success(tok) == [settled |-> TRUE, success |-> TRUE, refreshToken |-> tok, error |-> ""]

\* the promise's resolve function: the first call settles it, later calls do nothing
ResolveOverwrite(res, a, value) == [res EXCEPT ![a] = value]
Resolve(res, a, value) == IF res[a].settled THEN res ELSE [res EXCEPT ![a] = value]

\* what tokens.refresh_token || undefined becomes: "" stands for undefined
ExchangeReplies == [ok : {TRUE}, refresh_token : Tokens \cup {""}, message : {""}]
                   \cup [ok : {FALSE}, refresh_token : {""}, message : ExchangeErrors]

\* ------------------------------------------------------------ url.parse
\* A pasted line or a request URL, by what url.parse(x, true) makes of it:
\* it throws, or yields a pathname and a query whose `code` and `error`
\* are "" when the parameter is absent or empty (both falsy).
NoQuery == [code |-> "", error |-> ""]
Queries == [code : Codes \cup {""}, error : ProviderErrors \cup {""}]
NoInput == [throws |-> FALSE, pathname |-> "", query |-> NoQuery]
PastedLines == [throws : {FALSE}, pathname : {"/"}, query : Queries]
               \cup {[throws |-> TRUE, pathname |-> "", query |-> NoQuery]}
\* requests to `/` with every query; requests to another path without
\* parameters and with both `code` and `error`
RequestUrls == [throws : {FALSE}, pathname : {"/"}, query : Queries]
               \cup [throws : {FALSE}, pathname : {"/favicon.ico"},
                     query : {q \in Queries : (q.code = "") = (q.error = "")}]

\* the acknowledgement pages of handleCallback and the 404 of the request handler
ResCancelled == "200 Authorization cancelled"
ResNoCode == "400 No authorization code"
ResSuccess == "200 Success!"
ResError == "500 Error"
ResNotFound == "404"
Responses == {ResCancelled, ResNoCode, ResSuccess, ResError, ResNotFound}

\* `!code` in the question callback
NoCodeNever(code) == FALSE
NoCode(code) == code = ""

\* --------------------------------------------------------------- cleanup
CleanupTimers(t, tid) == IF tid # 0 /\ t[tid] = "armed" THEN [t EXCEPT ![tid] = "cleared"] ELSE t
\* server.close() stops a listening server ("closed").  A server whose
\* bind failed, or whose listen() has not finished, has no handle to close:
\* depending on the runtime a pending listen is abandoned or still completes.
CloseServer(state) ==
    CASE state = "listening" -> "closed"
      [] state = "binding" -> "closedUnbound"
      [] OTHER -> state
CleanupServers(s, sv) == IF sv = 0 THEN s ELSE [s EXCEPT ![sv] = CloseServer(@)]

\* `if (this.server)`: the test that keeps cleanup() from calling close()
\* on null, which throws
HasServerUnguarded(sv) == TRUE
HasServer(sv) == sv # 0

\* this.cleanup(), applied to the timers t and servers s of the moment
cleanup(t, s) ==
    /\ tmr' = CleanupTimers(t, timeoutId)
    /\ timeoutId' = 0
    /\ IF HasServer(server)
         THEN /\ srv' = CleanupServers(s, server)
              /\ crashed' = (crashed \/ server = 0)
         ELSE /\ srv' = s
              /\ crashed' = crashed
    /\ server' = 0

\* ------------------------------------------------------- accounts add
Emails == {"a@example.com", "b@example.com"}
\* no command is running: the class is driven by its callers directly
NoCommand == [pc |-> "none", email |-> "", manual |-> FALSE, exitCode |-> -1, stderr |-> ""]
\* `nbn accounts add [email] [--manual]` at the top of its handler; exitCode
\* is -1 while the process runs
Commands == [pc : {"start"}, email : Emails \cup {""}, manual : BOOLEAN,
             exitCode : {-1}, stderr : {""}]

ErrMissingEmail == "Missing email address"
ErrAccountExists == "Account already exists"
ErrNoCredentials == "No credentials configured"
ErrAuthFailed == "Authorization failed"
ErrNoToken == "No refresh token received"

\* the account store: whether credentials are configured, and the accounts
Account(email, refreshToken) == [email |-> email, refreshToken |-> refreshToken]
Stores == [creds : BOOLEAN, accounts : {{}, {Account("a@example.com", "rt0")}}]
hasAccount(st, email) == \E acc \in st.accounts : acc.email = email
addAccount(st, acc) == [st EXCEPT !.accounts = @ \cup {acc}]

\* an authorize() that looks at result.success only
authorizeSuccessOnly(r) ==
    IF ~r.success THEN [threw |-> TRUE, value |-> IF r.error # "" THEN r.error ELSE ErrAuthFailed]
    ELSE [threw |-> FALSE, value |-> r.refreshToken]
authorizeUnchecked(r) == [threw |-> FALSE, value |-> r.refreshToken]
\* authorize() after the awaited flow: the token it returns or the error it throws
authorize(r) ==
    IF ~r.success
      THEN [threw |-> TRUE, value |-> IF r.error # "" THEN r.error ELSE ErrAuthFailed]
      ELSE IF r.refreshToken = ""
        THEN [threw |-> TRUE, value |-> ErrNoToken]
        ELSE [threw |-> FALSE, value |-> r.refreshToken]

\* ------------------------------------------------------------------ Init
InitFlow ==
    /\ server = 0
    /\ timeoutId = 0
    /\ crashed = FALSE
    /\ nAttempts = 0
    /\ mode = [a \in Attempts |-> "none"]
    /\ srv = [a \in Attempts |-> "none"]
    /\ tmr = [a \in Attempts |-> "none"]
    /\ rl = [a \in Attempts |-> "none"]
    /\ pasted = [a \in Attempts |-> NoInput]
    /\ inflight = [a \in Attempts |-> 0]
    /\ exchanges = [a \in Attempts |-> 0]
    /\ result = [a \in Attempts |-> Pending]
    /\ oauth2Client = NoRedirect
    /\ authUrl = [a \in Attempts |-> NoUrl]
    /\ browser = [a \in Attempts |-> "none"]
    /\ calls = <<>>
    /\ inTime = [a \in Attempts |-> 0]
    /\ req = NoInput

Init ==
    /\ InitFlow
    /\ cli = NoCommand
    /\ store = [creds |-> FALSE, accounts |-> {}]

\* --------------------------------------------------------------- actions
RECURSIVE SumTo(_, _)
SumTo(f, n) == IF n = 0 THEN 0 ELSE f[n] + SumTo(f, n - 1)
\* getToken calls made so far by all attempts; the model stops at MaxExchanges
TotalExchanges == SumTo(exchanges, MaxAttempts)

\* startAuthFlow with the deadline armed next to listen(), not in its callback
startAuthFlowArmsTimer ==
    /\ Alive
    /\ nAttempts < MaxAttempts
    /\ LET a == nAttempts + 1 IN
        /\ nAttempts' = a
        /\ mode' = [mode EXCEPT ![a] = "auto"]
        /\ server' = a
        /\ srv' = [srv EXCEPT ![a] = "binding"]
        /\ timeoutId' = a
        /\ tmr' = [tmr EXCEPT ![a] = "armed"]
    /\ calls' = Log(<<"createServer", "listen", "setTimeout">>)
    /\ UNCHANGED inTime
    /\ UNCHANGED <<crashed, rl, pasted, inflight, exchanges, result,
                   oauth2Client, authUrl, browser>>

\* authorize(false) up to the end of the promise executor of startAuthFlow
startAuthFlow ==
    /\ Alive
    /\ nAttempts < MaxAttempts
    /\ LET a == nAttempts + 1 IN
        /\ nAttempts' = a
        /\ mode' = [mode EXCEPT ![a] = "auto"]
        /\ server' = a
        /\ srv' = [srv EXCEPT ![a] = "binding"]
    /\ calls' = Log(<<"createServer", "listen">>)
    /\ UNCHANGED inTime
    /\ UNCHANGED <<timeoutId, crashed, tmr, rl, pasted, inflight, exchanges, result,
                   oauth2Client, authUrl, browser>>

\* authorize(true) up to rl.question
startManualFlow ==
    /\ Alive
    /\ nAttempts < MaxAttempts
    /\ LET a == nAttempts + 1 IN
        /\ nAttempts' = a
        /\ mode' = [mode EXCEPT ![a] = "manual"]
        /\ oauth2Client' = ManualRedirect
        /\ authUrl' = [authUrl EXCEPT ![a] = ManualAuthUrl(ManualRedirect)]
        /\ rl' = [rl EXCEPT ![a] = "asking"]
    /\ calls' = Log(<<"log", "createInterface", "question">>)
    /\ UNCHANGED inTime
    /\ UNCHANGED <<server, timeoutId, crashed, srv, tmr, pasted, inflight, exchanges, result,
                   browser>>

\* the listen callback: the address is read, the URL printed, the browser
\* launched and the timer armed, in this order
ListenCalls == <<"address", "log", "spawn", "setTimeout">>

\* the callback given to server.listen.  openBrowser spawns a command; when
\* the command does not exist (~found) the child process emits 'error' on
\* the next tick, which nothing listens for, and the exception is uncaught
Listening(a, found) ==
    /\ Alive
    /\ srv[a] \in {"binding", "closedUnbound"}
    /\ srv' = [srv EXCEPT ![a] = "listening"]
    /\ IF server = 0
         THEN \* this.server!.address() on null throws inside the callback
              /\ crashed' = TRUE
              /\ calls' = Log(<<"address">>)
              /\ UNCHANGED inTime
              /\ UNCHANGED <<timeoutId, tmr, oauth2Client, authUrl, browser>>
         ELSE LET redirectUri == Loopback(AddressPort(server, srv'[server])) IN
              /\ oauth2Client' = redirectUri
              /\ authUrl' = [authUrl EXCEPT ![a] = AuthUrl(redirectUri)]
              /\ browser' = [browser EXCEPT ![a] = IF found THEN "spawned" ELSE "failed"]
              /\ timeoutId' = a
              /\ tmr' = [tmr EXCEPT ![a] = "armed"]
              /\ crashed' = ~found
              /\ calls' = Log(ListenCalls)
              /\ UNCHANGED inTime
    /\ UNCHANGED <<server, nAttempts, mode, rl, pasted, inflight, exchanges, result>>

\* an 'error' handler that turns to the manual prompt instead of resolving
BindErrorFallsBack(a, msg) ==
    /\ Alive
    /\ srv[a] \in {"binding", "closedUnbound"}
    /\ cleanup(tmr, [srv EXCEPT ![a] = "failed"])
    /\ rl' = [rl EXCEPT ![a] = "asking"]
    /\ calls' = Log(<<"cleanup", "createInterface", "question">>)
    /\ UNCHANGED inTime
    /\ UNCHANGED <<nAttempts, mode, pasted, inflight, exchanges, result,
                   oauth2Client, authUrl, browser>>

\* the 'error' handler of the server, for a failed bind
BindError(a, msg) ==
    /\ Alive
    /\ srv[a] \in {"binding", "closedUnbound"}
    /\ cleanup(tmr, [srv EXCEPT ![a] = "failed"])
    /\ result' = Resolve(result, a, Failure(msg))
    /\ calls' = Log(<<"cleanup", "resolve">>)
    /\ UNCHANGED inTime
    /\ UNCHANGED <<nAttempts, mode, rl, pasted, inflight, exchanges,
                   oauth2Client, authUrl, browser>>

\* a handleCallback that looks for `code` before it looks for `error`
handleCallbackCodeFirst(a, query) ==
    IF query.code # ""
      THEN /\ TotalExchanges < MaxExchanges
           /\ exchanges' = [exchanges EXCEPT ![a] = @ + 1]
           /\ inflight' = [inflight EXCEPT ![a] = @ + 1]
           /\ calls' = Log(<<"getToken">>)
           /\ inTime' = IF Recorded /\ ~result[a].settled
                          THEN [inTime EXCEPT ![a] = @ + 1] ELSE inTime
           /\ UNCHANGED <<server, timeoutId, crashed, srv, tmr, result>>
      ELSE /\ cleanup(tmr, srv)
           /\ result' = Resolve(result, a, Failure(IF query.error # "" THEN query.error ELSE ErrNoCode))
           /\ calls' = Log(<<IF query.error # "" THEN ResCancelled ELSE ResNoCode, "cleanup", "resolve">>)
           /\ UNCHANGED inTime
           /\ UNCHANGED <<inflight, exchanges>>

\* handleCallback up to its first await or return
handleCallback(a, query) ==
    IF query.error # ""
      THEN /\ cleanup(tmr, srv)
           /\ result' = Resolve(result, a, Failure(query.error))
           /\ calls' = Log(<<ResCancelled, "cleanup", "resolve">>)
           /\ UNCHANGED inTime
           /\ UNCHANGED <<inflight, exchanges>>
      ELSE IF query.code = ""
        THEN /\ cleanup(tmr, srv)
             /\ result' = Resolve(result, a, Failure(ErrNoCode))
             /\ calls' = Log(<<ResNoCode, "cleanup", "resolve">>)
             /\ UNCHANGED inTime
             /\ UNCHANGED <<inflight, exchanges>>
        ELSE /\ TotalExchanges < MaxExchanges
             /\ exchanges' = [exchanges EXCEPT ![a] = @ + 1]
             /\ inflight' = [inflight EXCEPT ![a] = @ + 1]
             /\ calls' = Log(<<"getToken">>)
             /\ inTime' = IF Recorded /\ ~result[a].settled
                            THEN [inTime EXCEPT ![a] = @ + 1] ELSE inTime
             /\ UNCHANGED <<server, timeoutId, crashed, srv, tmr, result>>

\* a request handler that hands every path to handleCallback
RequestAnyPath(a, u) ==
    /\ Alive
    /\ srv[a] \in {"listening", "closed"}
    /\ req' = IF Recorded THEN u ELSE req
    /\ handleCallback(a, u.query)
    /\ UNCHANGED <<nAttempts, mode, rl, pasted, oauth2Client, authUrl, browser>>

\* the request handler given to http.createServer, for a request on a
\* connection that was accepted while the server listened: close() stops
\* the server from accepting connections and leaves the accepted ones open
Request(a, u) ==
    /\ Alive
    /\ srv[a] \in {"listening", "closed"}
    /\ req' = IF Recorded THEN u ELSE req
    /\ IF u.pathname = "/"
         THEN handleCallback(a, u.query)
         ELSE /\ calls' = Log(<<ResNotFound>>)
              /\ UNCHANGED inTime
              /\ UNCHANGED <<server, timeoutId, crashed, srv, tmr, inflight, exchanges, result>>
    /\ UNCHANGED <<nAttempts, mode, rl, pasted, oauth2Client, authUrl, browser>>

\* a continuation that stops the listener and resolves before it answers
ExchangeReturnsAckLast(a, reply) ==
    /\ Alive
    /\ mode[a] = "auto"
    /\ inflight[a] > 0
    /\ inflight' = [inflight EXCEPT ![a] = @ - 1]
    /\ cleanup(tmr, srv)
    /\ result' = Resolve(result, a,
                         IF reply.ok THEN Success(reply.refresh_token)
                                     ELSE Failure(reply.message))
    /\ calls' = Log(<<"cleanup", "resolve", IF reply.ok THEN ResSuccess ELSE ResError>>)
    /\ UNCHANGED inTime
    /\ UNCHANGED <<nAttempts, mode, rl, pasted, exchanges,
                   oauth2Client, authUrl, browser>>

\* handleCallback after the awaited getToken of an automated attempt
ExchangeReturns(a, reply) ==
    /\ Alive
    /\ mode[a] = "auto"
    /\ inflight[a] > 0
    /\ inflight' = [inflight EXCEPT ![a] = @ - 1]
    /\ cleanup(tmr, srv)
    /\ result' = Resolve(result, a,
                         IF reply.ok THEN Success(reply.refresh_token)
                                     ELSE Failure(reply.message))
    /\ calls' = Log(<<IF reply.ok THEN ResSuccess ELSE ResError, "cleanup", "resolve">>)
    /\ UNCHANGED inTime
    /\ UNCHANGED <<nAttempts, mode, rl, pasted, exchanges,
                   oauth2Client, authUrl, browser>>

\* the setTimeout callback
Timeout(a) ==
    /\ Alive
    /\ tmr[a] = "armed"
    /\ cleanup([tmr EXCEPT ![a] = "fired"], srv)
    /\ result' = Resolve(result, a, Failure(ErrTimedOut))
    /\ calls' = Log(<<"log", "cleanup", "resolve">>)
    /\ UNCHANGED inTime
    /\ UNCHANGED <<nAttempts, mode, rl, pasted, inflight, exchanges,
                   oauth2Client, authUrl, browser>>

\* a question callback that leaves the console reader open
PasteKeepsReading(a, line) ==
    /\ Alive
    /\ rl[a] = "asking"
    /\ UNCHANGED rl
    /\ pasted' = [pasted EXCEPT ![a] = line]
    /\ IF line.throws
         THEN /\ result' = Resolve(result, a, Failure(ParseError))
              /\ calls' = Log(<<"rl.close", "parse", "resolve">>)
              /\ UNCHANGED inTime
              /\ UNCHANGED <<inflight, exchanges>>
         ELSE IF NoCode(line.query.code)
           THEN /\ result' = Resolve(result, a, Failure(ErrNoCodeManual))
                /\ calls' = Log(<<"rl.close", "parse", "resolve">>)
                /\ UNCHANGED inTime
                /\ UNCHANGED <<inflight, exchanges>>
           ELSE /\ TotalExchanges < MaxExchanges
                /\ exchanges' = [exchanges EXCEPT ![a] = @ + 1]
                /\ inflight' = [inflight EXCEPT ![a] = @ + 1]
                /\ calls' = Log(<<"rl.close", "parse", "getToken">>)
                /\ inTime' = IF Recorded THEN [inTime EXCEPT ![a] = @ + 1] ELSE inTime
                /\ UNCHANGED result
    /\ UNCHANGED <<server, timeoutId, crashed, nAttempts, mode, srv, tmr,
                   oauth2Client, authUrl, browser>>

\* the rl.question callback up to its first await or return
Paste(a, line) ==
    /\ Alive
    /\ rl[a] = "asking"
    /\ rl' = [rl EXCEPT ![a] = "closed"]
    /\ pasted' = [pasted EXCEPT ![a] = line]
    /\ IF line.throws
         THEN /\ result' = Resolve(result, a, Failure(ParseError))
              /\ calls' = Log(<<"rl.close", "parse", "resolve">>)
              /\ UNCHANGED inTime
              /\ UNCHANGED <<inflight, exchanges>>
         ELSE IF NoCode(line.query.code)
           THEN /\ result' = Resolve(result, a, Failure(ErrNoCodeManual))
                /\ calls' = Log(<<"rl.close", "parse", "resolve">>)
                /\ UNCHANGED inTime
                /\ UNCHANGED <<inflight, exchanges>>
           ELSE /\ TotalExchanges < MaxExchanges
                /\ exchanges' = [exchanges EXCEPT ![a] = @ + 1]
                /\ inflight' = [inflight EXCEPT ![a] = @ + 1]
                /\ calls' = Log(<<"rl.close", "parse", "getToken">>)
                /\ inTime' = IF Recorded THEN [inTime EXCEPT ![a] = @ + 1] ELSE inTime
                /\ UNCHANGED result
    /\ UNCHANGED <<server, timeoutId, crashed, nAttempts, mode, srv, tmr,
                   oauth2Client, authUrl, browser>>

\* the rl.question callback after the awaited getToken
ManualExchangeReturns(a, reply) ==
    /\ Alive
    /\ mode[a] = "manual"
    /\ inflight[a] > 0
    /\ inflight' = [inflight EXCEPT ![a] = @ - 1]
    /\ result' = Resolve(result, a,
                         IF reply.ok THEN Success(reply.refresh_token)
                                     ELSE Failure(reply.message))
    /\ calls' = Log(<<"resolve">>)
    /\ UNCHANGED inTime
    /\ UNCHANGED <<server, timeoutId, crashed, nAttempts, mode, srv, tmr, rl,
                   pasted, exchanges, oauth2Client, authUrl, browser>>

\* a caller of the class: any of its callbacks, or a call of authorize()
Next ==
    \/ startAuthFlow /\ UNCHANGED <<req, cliVars>>
    \/ startManualFlow /\ UNCHANGED <<req, cliVars>>
    \/ \E a \in Attempts, found \in BOOLEAN : Listening(a, found) /\ UNCHANGED <<req, cliVars>>
    \/ \E a \in Attempts, msg \in BindErrors : BindError(a, msg) /\ UNCHANGED <<req, cliVars>>
    \/ \E a \in Attempts, u \in RequestUrls : Request(a, u) /\ UNCHANGED cliVars
    \/ \E a \in Attempts, reply \in ExchangeReplies : ExchangeReturns(a, reply) /\ UNCHANGED <<req, cliVars>>
    \/ \E a \in Attempts : Timeout(a) /\ UNCHANGED <<req, cliVars>>
    \/ \E a \in Attempts, line \in PastedLines : Paste(a, line) /\ UNCHANGED <<req, cliVars>>
    \/ \E a \in Attempts, reply \in ExchangeReplies : ManualExchangeReturns(a, reply) /\ UNCHANGED <<req, cliVars>>

Spec == Init /\ [][Next]_vars

\* A caller that awaits each authorize() before it calls the next one, as
\* handleAccounts does with its single call.
AllSettled == \A a \in Attempts : mode[a] # "none" => result[a].settled

NextSeq ==
    \/ AllSettled /\ startAuthFlow /\ UNCHANGED <<req, cliVars>>
    \/ AllSettled /\ startManualFlow /\ UNCHANGED <<req, cliVars>>
    \/ \E a \in Attempts, found \in BOOLEAN : Listening(a, found) /\ UNCHANGED <<req, cliVars>>
    \/ \E a \in Attempts, msg \in BindErrors : BindError(a, msg) /\ UNCHANGED <<req, cliVars>>
    \/ \E a \in Attempts, u \in RequestUrls : Request(a, u) /\ UNCHANGED cliVars
    \/ \E a \in Attempts, reply \in ExchangeReplies : ExchangeReturns(a, reply) /\ UNCHANGED <<req, cliVars>>
    \/ \E a \in Attempts : Timeout(a) /\ UNCHANGED <<req, cliVars>>
    \/ \E a \in Attempts, line \in PastedLines : Paste(a, line) /\ UNCHANGED <<req, cliVars>>
    \/ \E a \in Attempts, reply \in ExchangeReplies : ManualExchangeReturns(a, reply) /\ UNCHANGED <<req, cliVars>>

SpecSeq == Init /\ [][NextSeq]_vars

\* ---------------------------------------------------- the accounts command
InitCli ==
    /\ InitFlow
    /\ cli \in Commands
    /\ store \in Stores

\* console.error(message); process.exit(1)
Exit(message) ==
    cli' = [cli EXCEPT !.pc = "exited", !.exitCode = 1, !.stderr = message]

\* an `accounts add` that does not look for the account in the store
AccountsAddNoExistCheck ==
    /\ Alive
    /\ cli.pc = "start"
    /\ IF cli.email = ""
         THEN Exit(ErrMissingEmail) /\ UNCHANGED <<flowVars, calls, inTime, req>>
         ELSE IF ~store.creds
           THEN Exit(ErrNoCredentials) /\ UNCHANGED <<flowVars, calls, inTime, req>>
           ELSE /\ IF cli.manual THEN startManualFlow ELSE startAuthFlow
                /\ cli' = [cli EXCEPT !.pc = "awaiting"]
                /\ UNCHANGED req
    /\ UNCHANGED store

\* handleAccounts, action "add", up to the awaited authorize()
AccountsAdd ==
    /\ Alive
    /\ cli.pc = "start"
    /\ IF cli.email = ""
         THEN Exit(ErrMissingEmail) /\ UNCHANGED <<flowVars, calls, inTime, req>>
         ELSE IF hasAccount(store, cli.email)
           THEN Exit(ErrAccountExists) /\ UNCHANGED <<flowVars, calls, inTime, req>>
           ELSE IF ~store.creds
             THEN Exit(ErrNoCredentials) /\ UNCHANGED <<flowVars, calls, inTime, req>>
             ELSE /\ IF cli.manual THEN startManualFlow ELSE startAuthFlow
                  /\ cli' = [cli EXCEPT !.pc = "awaiting"]
                  /\ UNCHANGED req
    /\ UNCHANGED store

\* handleAccounts after the awaited authorize(): the account is added, or
\* the error thrown by authorize() reaches the catch of main
AuthorizeReturns ==
    /\ Alive
    /\ cli.pc = "awaiting"
    /\ result[nAttempts].settled
    /\ LET out == authorize(result[nAttempts]) IN
         IF out.threw
           THEN Exit(out.value) /\ UNCHANGED store
           ELSE /\ store' = addAccount(store, Account(cli.email, out.value))
                /\ cli' = [cli EXCEPT !.pc = "done"]
    /\ UNCHANGED <<flowVars, calls, inTime, req>>

\* one run of `nbn accounts add`: the command and the callbacks of its attempt
NextCli ==
    \/ AccountsAdd
    \/ AuthorizeReturns
    \/ \E a \in Attempts, found \in BOOLEAN : Listening(a, found) /\ UNCHANGED <<req, cliVars>>
    \/ \E a \in Attempts, msg \in BindErrors : BindError(a, msg) /\ UNCHANGED <<req, cliVars>>
    \/ \E a \in Attempts, u \in RequestUrls : Request(a, u) /\ UNCHANGED cliVars
    \/ \E a \in Attempts, reply \in ExchangeReplies : ExchangeReturns(a, reply) /\ UNCHANGED <<req, cliVars>>
    \/ \E a \in Attempts : Timeout(a) /\ UNCHANGED <<req, cliVars>>
    \/ \E a \in Attempts, line \in PastedLines : Paste(a, line) /\ UNCHANGED <<req, cliVars>>
    \/ \E a \in Attempts, reply \in ExchangeReplies : ManualExchangeReturns(a, reply) /\ UNCHANGED <<req, cliVars>>

SpecCli == InitCli /\ [][NextCli]_vars

TypeOK ==
    /\ server \in 0..MaxAttempts
    /\ timeoutId \in 0..MaxAttempts
    /\ crashed \in BOOLEAN
    /\ nAttempts \in 0..MaxAttempts
    /\ \A a \in Attempts :
        /\ mode[a] \in {"none", "auto", "manual"}
        /\ srv[a] \in {"none", "binding", "listening", "failed", "closed", "closedUnbound"}
        /\ tmr[a] \in {"none", "armed", "fired", "cleared"}
        /\ rl[a] \in {"none", "asking", "closed"}
        /\ inflight[a] \in 0..MaxExchanges
        /\ exchanges[a] \in 0..MaxExchanges
    /\ cli \in [pc : {"none", "start", "awaiting", "exited", "done"}, email : Emails \cup {""},
                manual : BOOLEAN, exitCode : {-1, 1},
                stderr : {"", ErrMissingEmail, ErrAccountExists, ErrNoCredentials, ErrAuthFailed,
                          ErrNoToken, ErrTimedOut, ErrNoCode, ErrNoCodeManual, ParseError}
                         \cup BindErrors \cup ExchangeErrors \cup ProviderErrors]
    /\ inTime \in [Attempts -> 0..MaxExchanges]
    /\ req \in RequestUrls \cup {NoInput}
    /\ calls \in Seq({"createServer", "listen", "log", "createInterface", "question", "address",
                      "spawn", "setTimeout", "cleanup", "resolve", "getToken", "rl.close",
                      "parse"} \cup Responses)
    /\ store \in [creds : BOOLEAN, accounts : SUBSET [email : Emails, refreshToken : Tokens \cup {"rt0"}]]
\* ------------------------------------------------------------ properties
Started(a) == mode[a] # "none"
TimedOut(a) == result[a] = Failure(ErrTimedOut)

\* C1: once the promise of an attempt is settled, no later event (a second
\* callback, a timer expiry, a late exchange return) changes the outcome
\* that authorize() reports.
OutcomeFixedOnce ==
    [][\A a \in Attempts : result[a].settled => result'[a] = result[a]]_vars

\* an attempt resolved by its timer whose exchange returned only afterwards
LateExchangeDiscarded ==
    \E a \in Attempts : TimedOut(a) /\ exchanges[a] > 0 /\ inflight[a] = 0

\* C2: in every state in which an attempt has resolved, its own listener
\* is no longer open and its own timer is no longer armed.
ResolvedReleased ==
    \A a \in Attempts :
        result[a].settled => srv[a] \notin {"binding", "listening"} /\ tmr[a] # "armed"

\* C3: after an attempt has resolved, a further request to `/` does not
\* invoke the token exchange for it.
NoExchangeAfterResolved ==
    [][\A a \in Attempts : result[a].settled => exchanges'[a] = exchanges[a]]_vars

\* C4: the token exchange is invoked at most once per attempt.
ExchangeAtMostOnce == \A a \in Attempts : exchanges[a] <= 1

\* C5: an attempt whose exchange is awaited and which is not yet resolved
\* is never resolved as timed out.
ExchangingNeverTimesOut ==
    [][\A a \in Attempts :
          inflight[a] > 0 /\ ~result[a].settled => result'[a] # Failure(ErrTimedOut)]_vars

\* C6: when the deadline of an unresolved automated attempt expires, the
\* attempt resolves as timed out and its listener is closed.
TimeoutClosesListener ==
    [][\A a \in Attempts :
          tmr[a] = "armed" /\ tmr'[a] = "fired" /\ ~result[a].settled
              => result'[a] = Failure(ErrTimedOut) /\ srv'[a] = "closed"]_vars

\* C7: while a manual attempt waits for the pasted line, its deadline
\* timer is armed.
ManualPromptHasTimer == \A a \in Attempts : rl[a] = "asking" => tmr[a] = "armed"

\* C8: one instance never owns two pending attempts.
OnePendingAttempt ==
    Cardinality({a \in Attempts : Started(a) /\ ~result[a].settled}) <= 1

\* C9: the return of an attempt's token exchange never closes the listener,
\* cancels the timer or resolves the promise of another attempt.
NoCrossAttemptEffect ==
    [][\A a, b \in Attempts :
          a # b /\ inflight'[a] < inflight[a]
              => /\ srv[b] = "listening" => srv'[b] = "listening"
                 /\ tmr[b] = "armed" => tmr'[b] = "armed"
                 /\ result'[b] = result[b]]_vars

\* C10: a pasted line that parses and whose query has no `code` ends the
\* manual attempt with the missing-code failure, and no token exchange is
\* made for that attempt.
ManualMissingCode ==
    \A a \in Attempts :
        mode[a] = "manual" /\ rl[a] = "closed" /\ ~pasted[a].throws /\ pasted[a].query.code = ""
            => result[a] = Failure(ErrNoCodeManual) /\ exchanges[a] = 0

\* a manual attempt that was given a line without `code`
PastedWithoutCode ==
    \E a \in Attempts :
        /\ mode[a] = "manual" /\ rl[a] = "closed"
        /\ ~pasted[a].throws /\ pasted[a].query.code = ""
        /\ result[a] = Failure(ErrNoCodeManual)

\* C11: a callback to `/` with an `error` parameter, received by an attempt
\* that has not resolved, resolves it as a failure carrying the provider's
\* reason, makes no token exchange, and leaves the attempt's listener closed
\* and its timer cancelled.
ErrorCallbackCancels ==
    [][\A a \in Attempts, u \in RequestUrls :
          Request(a, u) /\ u.pathname = "/" /\ u.query.error # "" /\ ~result[a].settled
              => /\ result'[a] = Failure(u.query.error)
                 /\ exchanges'[a] = exchanges[a]
                 /\ srv'[a] = "closed"
                 /\ tmr'[a] = "cleared"]_vars

\* the callbacks of attempt a that end with this.cleanup()
RunsCleanup(a) ==
    \/ Timeout(a)
    \/ \E reply \in ExchangeReplies : ExchangeReturns(a, reply)
    \/ \E u \in RequestUrls :
          Request(a, u) /\ u.pathname = "/" /\ (u.query.error # "" \/ u.query.code = "")

\* C12: a cleanup() that runs when an earlier cleanup() has left both
\* fields null closes no listener, clears no timer and raises no error.
CleanupIdempotent ==
    [][server = 0 /\ timeoutId = 0
          => \A a \in Attempts :
                \/ /\ srv' = srv
                   /\ \A b \in Attempts : tmr'[b] # tmr[b] => b = a /\ tmr'[a] = "fired"
                   /\ server' = 0 /\ timeoutId' = 0
                   /\ ~crashed'
                \/ ~RunsCleanup(a)]_vars

\* an attempt cancelled by the provider, its listener closed, whose token
\* exchange returned afterwards and ran cleanup() once more
CleanupRanTwice ==
    \E a \in Attempts :
        /\ result[a] \in {Failure(e) : e \in ProviderErrors}
        /\ exchanges[a] > 0 /\ inflight[a] = 0
        /\ srv[a] = "closed" /\ server = 0 /\ timeoutId = 0

\* a token exchange of attempt a returns `reply`, in either mode
Returned(a, reply) == ExchangeReturns(a, reply) \/ ManualExchangeReturns(a, reply)

\* C13: when every code of an attempt was delivered while the attempt was
\* unresolved and its token exchange returns a refresh token, authorize()
\* returns exactly that token.
AuthorizeReturnsToken ==
    [][\A a \in Attempts, reply \in ExchangeReplies :
          Returned(a, reply) /\ reply.refresh_token # "" /\ inTime[a] = exchanges[a]
              => authorize(result'[a]) = [threw |-> FALSE, value |-> reply.refresh_token]]_vars

\* C14: an attempt whose listener could not bind ends as a failure with the
\* bind error's reason; it has no prompt, no browser, no timer, no exchange.
BindFailureEnds ==
    \A a \in Attempts :
        srv[a] = "failed"
            => /\ result[a] \in {Failure(msg) : msg \in BindErrors}
               /\ rl[a] = "none"
               /\ browser[a] = "none"
               /\ tmr[a] = "none"
               /\ exchanges[a] = 0

\* an attempt ended by a bind error
BindFailed == \E a \in Attempts : srv[a] = "failed" /\ result[a].settled

\* C15: a browser that could not be launched does not crash the process.
BrowserFailureHarmless == \A a \in Attempts : browser[a] = "failed" => ~crashed

\* C16: when the token exchange of an attempt fails, every code of the
\* attempt having been delivered while it was unresolved, the attempt ends
\* as a failure carrying the error's message, no second exchange was made
\* for it, and its listener and timer are released.
ExchangeFailureEnds ==
    [][\A a \in Attempts, reply \in ExchangeReplies :
          Returned(a, reply) /\ ~reply.ok /\ inTime[a] = exchanges[a]
              => /\ result'[a] = Failure(reply.message)
                 /\ exchanges'[a] = 1
                 /\ srv'[a] \notin {"binding", "listening"}
                 /\ tmr'[a] # "armed"]_vars

\* C17: a request on a path other than `/` is answered 404 and changes
\* nothing of the instance or its attempts, whatever its query.
OtherPathIgnored ==
    [][\A a \in Attempts, u \in RequestUrls :
          Request(a, u) /\ u.pathname # "/"
              => calls' = <<ResNotFound>> /\ UNCHANGED flowVars]_vars

\* a 404 was answered while the attempt waits with its listener open
NotFoundWhilePending ==
    /\ calls = <<ResNotFound>>
    /\ \E a \in Attempts : srv[a] = "listening" /\ tmr[a] = "armed" /\ ~result[a].settled

\* authorize() has returned a refresh token for the awaited attempt
ReturnsToken == \E tok \in Tokens : result[nAttempts] = Success(tok)

\* C18: `accounts add` changes the store only by adding the account with
\* the token authorize() returned; when authorize() does not return a
\* token the store is unchanged, an error is printed and the exit status
\* is nonzero.
StoreWrittenOnlyWithToken ==
    [][/\ store' # store
            => /\ cli.pc = "awaiting"
               /\ ReturnsToken
               /\ store' = addAccount(store, Account(cli.email, result[nAttempts].refreshToken))
       /\ cli.pc = "awaiting" /\ cli'.pc # "awaiting" /\ ~ReturnsToken
            => store' = store /\ cli'.stderr # "" /\ cli'.exitCode > 0]_vars

\* the command ended with the error of its failed attempt
AddFailed ==
    /\ cli.pc = "exited"
    /\ nAttempts > 0
    /\ result[nAttempts].settled /\ ~result[nAttempts].success
    /\ cli.stderr = result[nAttempts].error

\* the fairness of the event loop: a pending bind completes or fails, an
\* armed timer fires, an awaited exchange returns
FairCli ==
    \A a \in Attempts :
        /\ WF_vars(/\ \/ \E found \in BOOLEAN : Listening(a, found)
                      \/ \E msg \in BindErrors : BindError(a, msg)
                   /\ UNCHANGED <<req, cliVars>>)
        /\ WF_vars(Timeout(a) /\ UNCHANGED <<req, cliVars>>)
        /\ WF_vars((\E reply \in ExchangeReplies : ExchangeReturns(a, reply)) /\ UNCHANGED <<req, cliVars>>)

SpecCliFair == SpecCli /\ FairCli

\* C19: every automated attempt eventually reaches a terminal outcome.
AutoTerminates == \A a \in Attempts : mode[a] = "auto" ~> result[a].settled

\* x comes before every y in the sequence c
Before(c, x, y) == \A j \in DOMAIN c : c[j] = y => \E i \in 1..(j - 1) : c[i] = x

\* C20: in an automated attempt the authorization URL exists only once the
\* listener is bound, the URL is printed before the browser is launched,
\* and the timer is armed only once the listener listens.
StepsOrdered ==
    /\ \A a \in Attempts :
          mode[a] = "auto"
              => /\ authUrl[a] # NoUrl => srv[a] \in {"listening", "closed"}
                 /\ browser[a] # "none" => authUrl[a] # NoUrl
                 /\ tmr[a] # "none" => srv[a] \in {"listening", "closed"}
    /\ Before(calls, "address", "spawn")
    /\ Before(calls, "log", "spawn")
    /\ Before(calls, "spawn", "setTimeout")

\* the listen callback has run: URL printed, browser launched, timer armed
ListenCallbackRan ==
    /\ calls = ListenCalls
    /\ \E a \in Attempts : srv[a] = "listening" /\ tmr[a] = "armed" /\ browser[a] = "spawned"

\* the redirect URI an attempt's authorization URL must carry, by its mode
RedirectOf(m, a) == IF m = "manual" THEN ManualRedirect ELSE Loopback(PortOf(a))

\* C21: the authorization URL of an attempt carries the redirect URI of its
\* mode, and a token exchange started for an unresolved attempt is made by
\* a client built with the redirect URI of that attempt's authorization URL.
ExchangeUsesOwnRedirect ==
    [][\A a \in Attempts :
          /\ authUrl'[a] # NoUrl => authUrl'[a].redirect_uri = RedirectOf(mode'[a], a)
          /\ exchanges'[a] > exchanges[a] /\ ~result[a].settled
                => oauth2Client = authUrl[a].redirect_uri]_vars

\* C22: every authorization URL carries response_type=code,
\* access_type=offline, prompt=consent and the three scopes in their order;
\* two URLs of one instance differ in their redirect URI only.
UrlParametersFixed ==
    \A a, b \in Attempts :
        authUrl[a] # NoUrl
            => /\ authUrl[a].response_type = "code"
               /\ authUrl[a].access_type = "offline"
               /\ authUrl[a].prompt = "consent"
               /\ Len(authUrl[a].scope) = 3
               /\ authUrl[a].scope = SCOPES
               /\ authUrl[b] # NoUrl
                     => [authUrl[a] EXCEPT !.redirect_uri = authUrl[b].redirect_uri] = authUrl[b]

\* an automated and a manual attempt of one instance have both shown their URL
UrlsOfBothModes ==
    \E a, b \in Attempts :
        /\ mode[a] = "auto" /\ mode[b] = "manual"
        /\ authUrl[a] # NoUrl /\ authUrl[b] # NoUrl
        /\ authUrl[a].redirect_uri # authUrl[b].redirect_uri

\* C23: a request to `/` with neither `code` nor `error`, received by an
\* attempt that has not resolved, resolves it with the missing-code failure,
\* makes no token exchange, and leaves the attempt's listener closed and
\* its timer cancelled.
MissingCodeCallbackEnds ==
    [][\A a \in Attempts, u \in RequestUrls :
          Request(a, u) /\ u.pathname = "/" /\ u.query = NoQuery /\ ~result[a].settled
              => /\ result'[a] = Failure(ErrNoCode)
                 /\ exchanges'[a] = exchanges[a]
                 /\ srv'[a] = "closed"
                 /\ tmr'[a] = "cleared"]_vars

\* the callbacks of attempt a that end the handling of a request to `/`
AnswersCallback(a) ==
    \/ \E reply \in ExchangeReplies : ExchangeReturns(a, reply)
    \/ \E u \in RequestUrls :
          Request(a, u) /\ u.pathname = "/" /\ (u.query.error # "" \/ u.query.code = "")

ManualErrorCancels ==
    \A a \in Attempts :
        mode[a] = "manual" /\ rl[a] = "closed" /\ ~pasted[a].throws /\ pasted[a].query.error # ""
            => result[a] = Failure(pasted[a].query.error) /\ exchanges[a] = 0

\* C26: a manual attempt has no listener and launches no browser; it has
\* printed its URL, takes one line of input and no second one, closes the
\* console reader before it parses the line, and starts at most one exchange.
ManualReadsOneLine ==
    [][\A a \in Attempts :
          mode'[a] = "manual"
              => /\ srv'[a] = "none" /\ browser'[a] = "none"
                 /\ authUrl'[a] = ManualAuthUrl(ManualRedirect)
                 /\ exchanges'[a] <= 1
                 /\ pasted[a] # NoInput => pasted'[a] = pasted[a] /\ rl'[a] = "closed"
                 /\ (\E line \in PastedLines : Paste(a, line))
                       => rl'[a] = "closed" /\ Before(calls', "rl.close", "parse")
                            /\ ~Before(calls', "getToken", "parse")]_vars

\* the one line of a manual attempt was read, the reader closed, the code exchanged
ManualLineExchanged ==
    /\ calls = <<"rl.close", "parse", "getToken">>
    /\ \E a \in Attempts :
          mode[a] = "manual" /\ rl[a] = "closed" /\ pasted[a] # NoInput /\ exchanges[a] = 1

\* C27 as stated: when the exchange succeeded without a refresh token,
\* authorize() returns and the command completes with the empty token.
MissingTokenIsSuccess ==
    [][AuthorizeReturns /\ result[nAttempts] = Success("") => cli'.pc = "done"]_vars

\* C27, amended: when the exchange succeeded without a refresh token the
\* attempt resolves as a success with an empty token, and authorize()
\* throws "No refresh token received": the command exits with that message
\* and the store is not written.
MissingTokenReported ==
    [][AuthorizeReturns /\ result[nAttempts] = Success("")
          => cli'.pc = "exited" /\ cli'.exitCode = 1 /\ cli'.stderr = ErrNoToken /\ store' = store]_vars

\* the command ended on the missing refresh token of a successful exchange
ExitedWithoutToken ==
    /\ nAttempts > 0
    /\ result[nAttempts] = Success("")
    /\ cli.pc = "exited" /\ cli.stderr = ErrNoToken

\* C28: a request to `/` with both `error` and `code`, received by an
\* attempt that has not resolved, resolves it with the provider's reason and
\* starts no token exchange.
ErrorBeforeCode ==
    [][\A a \in Attempts, u \in RequestUrls :
          Request(a, u) /\ u.pathname = "/" /\ u.query.error # "" /\ u.query.code # "" /\ ~result[a].settled
              => /\ result'[a] = Failure(u.query.error)
                 /\ exchanges' = exchanges
                 /\ inflight' = inflight]_vars

\* the last request carried both parameters and the attempt was cancelled
CancelledDespiteCode ==
    /\ req.pathname = "/" /\ req.query.error # "" /\ req.query.code # ""
    /\ calls = <<ResCancelled, "cleanup", "resolve">>
    /\ \E a \in Attempts : result[a] = Failure(req.query.error) /\ exchanges[a] = 0

====
